---- MODULE Spec2Model ----
(***************************************************************************)
(* Model of the SQL lexer and statement splitter of tokenizer.py.          *)
(*                                                                         *)
(* A source text is a sequence of one-character strings.  Positions are    *)
(* 0-based as in the Python code: At(sql, k) is sql[k] and Slice(sql,a,b)  *)
(* is sql[a:b].  tokenize_sql is modelled twice from the same per-branch   *)
(* operators: as a state machine that takes one iteration of the outer     *)
(* while loop per step, and as the operator TokenizeSql that               *)
(* split_statements calls.                                                 *)
(***************************************************************************)
EXTENDS Integers, Sequences, FiniteSets

VARIABLES sql, dialect, i, tokens, pc, stmts

vars == <<sql, dialect, i, tokens, pc, stmts>>

(***************************************************************************)
(* Bounds of the checked input space.                                      *)
(***************************************************************************)
\* longest source drawn from the full alphabet
MaxLen == 2
\* longest source drawn from one of the small construct alphabets
MaxFocusLen == 5
\* longest source drawn from the dollar-quote alphabet
MaxDollarLen == 6
\* longest run of comment delimiters that starts a nested-comment source
MaxNestLen == 8

(***************************************************************************)
(* Characters.                                                             *)
(***************************************************************************)
\* one representative (or more) of every character class the lexer tells apart
Chars ==
  {" ", "\n", "\f", "-", "/", "*", "$", "\"", "'", "q", "Q", "1", ".", "e",
   "a", "_", ";", ",", "<", ">", "#"}

\* small alphabets, each around one quoting construct
QuoteChars == {"'", "\"", ";", "a"}
DollarChars == {"$", "a", "A", ";"}
QQuoteChars == {"q", "'", "[", "]", ";"}
CommentChars == {"/", "*", "-", "\n", ";"}
NumberChars == {"1", ".", "e", "+"}
NestChars == {"/", "*"}
\* what follows the comment delimiters of a nested-comment source
NestTails == {<<>>, <<";">>, <<"1", ";">>}

Dialects == {"oracle", "postgres"}

\* str.isalpha on the modelled characters
IsAlpha(ch) == ch \in {"a", "A", "e", "q", "Q"}

\* str.isdigit on the modelled characters
IsDigit(ch) == ch \in {"1"}

\* str.isalnum
IsAlnum(ch) == IsAlpha(ch) \/ IsDigit(ch)

\* strip(' '): only the blank removed
IsSpace_BlankOnly(ch) == ch = " "

\* the characters str.strip() removes (str.isspace); a form feed is one of
\* them although the lexer's WHITESPACE does not hold it
IsSpace(ch) == ch \in {" ", "\n", "\f"}

\* the regular expression class [A-Za-z0-9_] of a dollar-quote tag
IsTagChar(ch) == ch \in {"a", "A", "e", "q", "Q", "1", "_"}

WHITESPACE == {" ", "\n"}

OP_MULTI ==
  {<<"<", ">">>, <<"!", "=">>, <<">", "=">>, <<"<", "=">>, <<"|", "|">>,
   <<":", "=">>, <<"-", ">">>, <<"-", ">", ">">>}

SINGLE_OPS ==
  {"(", ")", ",", ".", "+", "-", "*", "/", "%", "<", ">", "=", "|", "&", "^",
   "~", "!", "?", ":", "[", "]", "{", "}", ";"}

_is_ident_start(ch) == IsAlpha(ch) \/ ch = "_"

_is_ident_part(ch) == IsAlnum(ch) \/ ch = "_" \/ ch = "$"

\* sql[k]
At(s, k) == s[k + 1]

\* sql[a:b] for 0 <= a <= b <= len(sql)
Slice(s, a, b) == SubSeq(s, a + 1, b)

Token(type, s, start, end) ==
  [type |-> type, value |-> Slice(s, start, end), start |-> start, end |-> end]

(***************************************************************************)
(* The inner loops of tokenize_sql.                                        *)
(***************************************************************************)
RECURSIVE WhitespaceEnd(_, _)
\* while j < n and sql[j] in WHITESPACE: j += 1
WhitespaceEnd(s, j) ==
  IF j < Len(s) /\ At(s, j) \in WHITESPACE THEN WhitespaceEnd(s, j + 1) ELSE j

RECURSIVE CommentLineEnd(_, _)
\* while j < n and sql[j] != '\n': j += 1
CommentLineEnd(s, j) ==
  IF j < Len(s) /\ At(s, j) # "\n" THEN CommentLineEnd(s, j + 1) ELSE j

RECURSIVE CommentBlockScan(_, _, _)
\* while i < n and depth > 0: ...; the position and the depth it ends with
CommentBlockScan(s, k, depth) ==
  IF k < Len(s) /\ depth > 0
  THEN IF At(s, k) = "/" /\ k + 1 < Len(s) /\ At(s, k + 1) = "*"
       THEN CommentBlockScan(s, k + 2, depth + 1)
       ELSE IF At(s, k) = "*" /\ k + 1 < Len(s) /\ At(s, k + 1) = "/"
            THEN CommentBlockScan(s, k + 2, depth - 1)
            ELSE CommentBlockScan(s, k + 1, depth)
  ELSE [i |-> k, depth |-> depth]

RECURSIVE DollarTagEnd(_, _)
\* the end of the greedy run [A-Za-z0-9_]* that starts at j
DollarTagEnd(s, j) ==
  IF j < Len(s) /\ IsTagChar(At(s, j)) THEN DollarTagEnd(s, j + 1) ELSE j

\* re.match(r"\$([A-Za-z0-9_]*)\$", sql[i:]) where sql[i] is '$'
DollarMatch(s, k) ==
  LET e == DollarTagEnd(s, k + 1) IN e < Len(s) /\ At(s, e) = "$"

\* m.group(0): the opening delimiter, '$' tag '$'
DollarPattern(s, k) == Slice(s, k, DollarTagEnd(s, k + 1) + 1)

RECURSIVE Find(_, _, _)
\* sql.find(pattern, from): the lowest index >= from where pattern occurs, or -1
Find(s, pattern, from) ==
  IF from + Len(pattern) > Len(s) THEN -1
  ELSE IF Slice(s, from, from + Len(pattern)) = pattern THEN from
       ELSE Find(s, pattern, from + 1)

RECURSIVE IdentQuotedScan(_, _)
\* the loop of the double-quoted identifier branch: where it ends, and whether
\* it ended at its break (a closing quote) rather than at the end of the source
IdentQuotedScan(s, k) ==
  IF k < Len(s)
  THEN IF At(s, k) = "\""
       THEN IF k + 1 < Len(s) /\ At(s, k + 1) = "\""
            THEN IdentQuotedScan(s, k + 2)
            ELSE [i |-> k + 1, closed |-> TRUE]
       ELSE IdentQuotedScan(s, k + 1)
  ELSE [i |-> k, closed |-> FALSE]

RECURSIVE StringSingleScan(_, _)
\* the loop of the single-quoted string branch
StringSingleScan(s, k) ==
  IF k < Len(s)
  THEN IF At(s, k) = "'"
       THEN IF k + 1 < Len(s) /\ At(s, k + 1) = "'"
            THEN StringSingleScan(s, k + 2)
            ELSE [i |-> k + 1, closed |-> TRUE]
       ELSE StringSingleScan(s, k + 1)
  ELSE [i |-> k, closed |-> FALSE]

\* pairs.get(opener, opener)
Closer(opener) ==
  IF opener = "[" THEN "]"
  ELSE IF opener = "(" THEN ")"
  ELSE IF opener = "{" THEN "}"
  ELSE IF opener = "<" THEN ">"
  ELSE opener

RECURSIVE QQuoteScan(_, _, _)
\* scan until closer followed by a single quote
QQuoteScan(s, k, closer) ==
  IF k < Len(s)
  THEN IF At(s, k) = closer /\ k + 1 < Len(s) /\ At(s, k + 1) = "'"
       THEN [i |-> k + 2, closed |-> TRUE]
       ELSE QQuoteScan(s, k + 1, closer)
  ELSE [i |-> k, closed |-> FALSE]

RECURSIVE NumberDigitsEnd(_, _, _)
\* while i < n and (sql[i].isdigit() or (sql[i] == '.' and not has_dot))
NumberDigitsEnd(s, k, has_dot) ==
  IF k < Len(s) /\ (IsDigit(At(s, k)) \/ (At(s, k) = "." /\ ~has_dot))
  THEN NumberDigitsEnd(s, k + 1, has_dot \/ At(s, k) = ".")
  ELSE k

RECURSIVE ExponentDigitsEnd(_, _)
\* while j < n and sql[j].isdigit(): j += 1
ExponentDigitsEnd(s, j) ==
  IF j < Len(s) /\ IsDigit(At(s, j)) THEN ExponentDigitsEnd(s, j + 1) ELSE j

RECURSIVE IdentEnd(_, _)
\* while i < n and _is_ident_part(sql[i]): i += 1
IdentEnd(s, k) ==
  IF k < Len(s) /\ _is_ident_part(At(s, k)) THEN IdentEnd(s, k + 1) ELSE k

(***************************************************************************)
(* The kind the three quote branches give their token once the loop is     *)
(* over: i is the position the loop ended at, n the length of the source.  *)
(***************************************************************************)
\* the bound check written i < n
IdentQuotedType_StrictBound(k, n) ==
  IF k < n THEN "IDENT_QUOTED" ELSE "IDENT_QUOTED_UNTERMINATED"

IdentQuotedType(k, n) ==
  IF k <= n THEN "IDENT_QUOTED" ELSE "IDENT_QUOTED_UNTERMINATED"

StringSingleType(k, n) ==
  IF k <= n THEN "STRING_SINGLE" ELSE "STRING_SINGLE_UNTERMINATED"

QQuoteType(k, n) == IF k <= n THEN "QQUOTE" ELSE "QQUOTE_UNTERMINATED"

(***************************************************************************)
(* One iteration of the outer loop, per branch: the token it appends, the  *)
(* position it leaves in i, and whether it leaves the loop by break.       *)
(***************************************************************************)
StepResult(tok, k, brk) == [tok |-> tok, i |-> k, brk |-> brk]

WhitespaceStep(s, k) ==
  LET j == WhitespaceEnd(s, k + 1)
  IN StepResult(Token("WHITESPACE", s, k, j), j, FALSE)

CommentLineStep(s, k) ==
  LET j == CommentLineEnd(s, k + 2)
  IN StepResult(Token("COMMENT_LINE", s, k, j), j, FALSE)

\* a block comment ended at the first '*/', without nesting
CommentBlockStep_NoNesting(s, k) ==
  LET idx == Find(s, <<"*", "/">>, k + 2)
      e == IF idx >= 0 THEN idx + 2 ELSE Len(s)
  IN StepResult(Token("COMMENT_BLOCK", s, k, e), e, FALSE)

CommentBlockStep(s, k) ==
  LET r == CommentBlockScan(s, k + 2, 1)
  IN StepResult(Token("COMMENT_BLOCK", s, k, r.i), r.i, FALSE)

\* the closing delimiter searched from the character after the opening '$'
StringDollarStep_FindFromOpener(s, k) ==
  LET pattern == DollarPattern(s, k)
      idx == Find(s, pattern, k + 1)
  IN IF idx >= 0
     THEN StepResult(Token("STRING_DOLLAR", s, k, idx + Len(pattern)),
                     idx + Len(pattern), FALSE)
     ELSE StepResult(Token("STRING_DOLLAR_UNTERMINATED", s, k, Len(s)),
                     Len(s), FALSE)

\* an unclosed dollar quote covering its opening delimiter only
StringDollarStep_OpenerOnly(s, k) ==
  LET pattern == DollarPattern(s, k)
      idx == Find(s, pattern, k + Len(pattern))
  IN IF idx >= 0
     THEN StepResult(Token("STRING_DOLLAR", s, k, idx + Len(pattern)),
                     idx + Len(pattern), FALSE)
     ELSE StepResult(Token("STRING_DOLLAR_UNTERMINATED", s, k,
                           k + Len(pattern)),
                     k + Len(pattern), FALSE)

StringDollarStep(s, k) ==
  LET pattern == DollarPattern(s, k)
      idx == Find(s, pattern, k + Len(pattern))
  IN IF idx >= 0
     THEN StepResult(Token("STRING_DOLLAR", s, k, idx + Len(pattern)),
                     idx + Len(pattern), FALSE)
     ELSE StepResult(Token("STRING_DOLLAR_UNTERMINATED", s, k, Len(s)),
                     Len(s), FALSE)

IdentQuotedStep(s, k) ==
  LET r == IdentQuotedScan(s, k + 1)
  IN StepResult(Token(IdentQuotedType(r.i, Len(s)), s, k, r.i), r.i, FALSE)

\* a single-quoted string ended at the first quote, doubled or not
StringSingleStep_NoEscape(s, k) ==
  LET idx == Find(s, <<"'">>, k + 1)
      e == IF idx >= 0 THEN idx + 1 ELSE Len(s)
  IN StepResult(Token(StringSingleType(e, Len(s)), s, k, e), e, FALSE)

StringSingleStep(s, k) ==
  LET r == StringSingleScan(s, k + 1)
  IN StepResult(Token(StringSingleType(r.i, Len(s)), s, k, r.i), r.i, FALSE)

QQuoteStep(s, k) ==
  IF k + 2 >= Len(s)
  THEN StepResult(Token("QQUOTE_UNTERMINATED", s, k, Len(s)), k + 2, TRUE)
  ELSE LET r == QQuoteScan(s, k + 3, Closer(At(s, k + 2)))
       IN StepResult(Token(QQuoteType(r.i, Len(s)), s, k, r.i), r.i, FALSE)

NumberStep(s, k) ==
  LET e == NumberDigitsEnd(s, k + 1, At(s, k) = ".")
  IN IF e < Len(s) /\ At(s, e) \in {"e", "E"}
     THEN LET j0 == e + 1
              j1 == IF j0 < Len(s) /\ At(s, j0) \in {"+", "-"}
                    THEN j0 + 1 ELSE j0
              j == ExponentDigitsEnd(s, j1)
          IN StepResult(Token("NUMBER", s, k, j), j, FALSE)
     ELSE StepResult(Token("NUMBER", s, k, e), e, FALSE)

IdentStep(s, k) ==
  LET e == IdentEnd(s, k + 1)
  IN StepResult(Token("IDENT", s, k, e), e, FALSE)

\* the two-character operator branch moving on by one character only
OpMultiStep_AdvanceOne(s, k) ==
  StepResult(Token("OP", s, k, k + 2), k + 1, FALSE)

OpMultiStep(s, k) == StepResult(Token("OP", s, k, k + 2), k + 2, FALSE)

SemicolonStep(s, k) == StepResult(Token("SEMICOLON", s, k, k + 1), k + 1, FALSE)

CommaStep(s, k) == StepResult(Token("COMMA", s, k, k + 1), k + 1, FALSE)

OpStep(s, k) == StepResult(Token("OP", s, k, k + 1), k + 1, FALSE)

\* the fallback branch without its i += 1
CharStep_NoAdvance(s, k) == StepResult(Token("CHAR", s, k, k + 1), k, FALSE)

CharStep(s, k) == StepResult(Token("CHAR", s, k, k + 1), k + 1, FALSE)

(***************************************************************************)
(* The if-chain of the loop body: the first branch whose condition holds   *)
(* at position k < len(sql).                                               *)
(***************************************************************************)
BranchAt(s, d, k) ==
  LET ch == At(s, k)
      n == Len(s)
  IN IF ch \in WHITESPACE THEN "WHITESPACE"
     ELSE IF ch = "-" /\ k + 1 < n /\ At(s, k + 1) = "-" THEN "COMMENT_LINE"
     ELSE IF ch = "/" /\ k + 1 < n /\ At(s, k + 1) = "*" THEN "COMMENT_BLOCK"
     ELSE IF d = "postgres" /\ ch = "$" /\ DollarMatch(s, k)
          THEN "STRING_DOLLAR"
     ELSE IF ch = "\"" THEN "IDENT_QUOTED"
     ELSE IF ch = "'" THEN "STRING_SINGLE"
     ELSE IF d = "oracle" /\ ch \in {"q", "Q"} /\ k + 1 < n
             /\ At(s, k + 1) = "'"
          THEN "QQUOTE"
     ELSE IF IsDigit(ch) \/ (ch = "." /\ k + 1 < n /\ IsDigit(At(s, k + 1)))
          THEN "NUMBER"
     ELSE IF _is_ident_start(ch) THEN "IDENT"
     ELSE IF k + 1 < n /\ Slice(s, k, k + 2) \in OP_MULTI THEN "OP_MULTI"
     ELSE IF ch = ";" THEN "SEMICOLON"
     ELSE IF ch = "," THEN "COMMA"
     ELSE IF ch \in SINGLE_OPS THEN "OP"
     ELSE "CHAR"

\* the body of the outer loop at position k
StepAt(s, d, k) ==
  LET b == BranchAt(s, d, k)
  IN CASE b = "WHITESPACE" -> WhitespaceStep(s, k)
       [] b = "COMMENT_LINE" -> CommentLineStep(s, k)
       [] b = "COMMENT_BLOCK" -> CommentBlockStep(s, k)
       [] b = "STRING_DOLLAR" -> StringDollarStep(s, k)
       [] b = "IDENT_QUOTED" -> IdentQuotedStep(s, k)
       [] b = "STRING_SINGLE" -> StringSingleStep(s, k)
       [] b = "QQUOTE" -> QQuoteStep(s, k)
       [] b = "NUMBER" -> NumberStep(s, k)
       [] b = "IDENT" -> IdentStep(s, k)
       [] b = "OP_MULTI" -> OpMultiStep(s, k)
       [] b = "SEMICOLON" -> SemicolonStep(s, k)
       [] b = "COMMA" -> CommaStep(s, k)
       [] b = "OP" -> OpStep(s, k)
       [] OTHER -> CharStep(s, k)

RECURSIVE TokenizeFrom(_, _, _, _)
\* the outer loop from position k with the tokens collected so far
TokenizeFrom(s, d, k, toks) ==
  IF k < Len(s)
  THEN LET r == StepAt(s, d, k)
       IN IF r.brk THEN Append(toks, r.tok)
          ELSE TokenizeFrom(s, d, r.i, Append(toks, r.tok))
  ELSE toks

\* tokenize_sql(sql, dialect)
TokenizeSql(s, d) == TokenizeFrom(s, d, 0, <<>>)

(***************************************************************************)
(* split_statements.                                                       *)
(***************************************************************************)
\* splitting at every token whose text holds a semicolon
IsTerminator_AnySemicolon(t) == \E p \in 1..Len(t.value) : t.value[p] = ";"

\* t.type == 'SEMICOLON' or (t.type == 'OP' and t.value == ';')
IsTerminator(t) ==
  t.type = "SEMICOLON" \/ (t.type = "OP" /\ t.value = <<";">>)

RECURSIVE SplitLoop(_, _, _, _, _)
\* the loop over the tokens: the statements closed so far and cur_start
SplitLoop(s, toks, k, cur_start, out) ==
  IF k <= Len(toks)
  THEN IF IsTerminator(toks[k])
       THEN SplitLoop(s, toks, k + 1, toks[k].end,
                      Append(out, [text |-> Slice(s, cur_start, toks[k].end),
                                   start |-> cur_start, end |-> toks[k].end,
                                   terminated |-> TRUE]))
       ELSE SplitLoop(s, toks, k + 1, cur_start, out)
  ELSE [stmts |-> out, cur_start |-> cur_start]

RECURSIVE LStrip(_)
\* the leading characters str.strip() removes
LStrip(s) == IF s # <<>> /\ IsSpace(Head(s)) THEN LStrip(Tail(s)) ELSE s

RECURSIVE RStrip(_)
\* the trailing characters str.strip() removes
RStrip(s) ==
  IF s # <<>> /\ IsSpace(s[Len(s)]) THEN RStrip(SubSeq(s, 1, Len(s) - 1)) ELSE s

\* str.strip()
Strip(s) == RStrip(LStrip(s))

\* the tail appended whenever it is non-empty, blank or not
SplitTail_NoStrip(s, cur_start) ==
  IF cur_start < Len(s)
  THEN <<[text |-> Slice(s, cur_start, Len(s)), start |-> cur_start,
          end |-> Len(s), terminated |-> FALSE]>>
  ELSE <<>>

\* the remaining tail: what is appended after the loop
SplitTail(s, cur_start) ==
  IF cur_start < Len(s)
  THEN LET tail == Slice(s, cur_start, Len(s))
       IN IF Strip(tail) # <<>>
          THEN <<[text |-> tail, start |-> cur_start, end |-> Len(s),
                  terminated |-> FALSE]>>
          ELSE <<>>
  ELSE <<>>

\* split_statements(sql, dialect)
SplitStatements(s, d) ==
  LET r == SplitLoop(s, TokenizeSql(s, d), 1, 0, <<>>)
  IN r.stmts \o SplitTail(s, r.cur_start)

(***************************************************************************)
(* The buffer of the read loop of sqlcli.main.                             *)
(***************************************************************************)
RECURSIVE LStripChars(_, _)
\* the leading characters str.strip(chars) removes
LStripChars(s, chars) ==
  IF s # <<>> /\ Head(s) \in chars THEN LStripChars(Tail(s), chars) ELSE s

RECURSIVE RStripChars(_, _)
\* the trailing characters str.strip(chars) removes
RStripChars(s, chars) ==
  IF s # <<>> /\ s[Len(s)] \in chars
  THEN RStripChars(SubSeq(s, 1, Len(s) - 1), chars)
  ELSE s

\* sql += ('\n' if sql else '') + (line if isatty else line.strip(' "'))
ReplAppend(buf, line, isatty) ==
  buf \o (IF buf # <<>> THEN <<"\n">> ELSE <<>>)
      \o (IF isatty THEN line
          ELSE RStripChars(LStripChars(line, {" ", "\""}), {" ", "\""}))

(***************************************************************************)
(* The state machine: a call of tokenize_sql on (sql, dialect), one        *)
(* iteration of its loop per step, followed by split_statements on the     *)
(* same arguments.                                                         *)
(***************************************************************************)
\* all sources of at most m characters over the alphabet S
SeqsUpTo(S, m) == UNION {[1..k -> S] : k \in 0..m}

Sources ==
  SeqsUpTo(Chars, MaxLen)
    \cup SeqsUpTo(QuoteChars, MaxFocusLen)
    \cup SeqsUpTo(DollarChars, MaxDollarLen)
    \cup SeqsUpTo(QQuoteChars, MaxFocusLen)
    \cup SeqsUpTo(CommentChars, MaxFocusLen)
    \cup SeqsUpTo(NumberChars, MaxFocusLen)
    \cup {s \o t : s \in SeqsUpTo(NestChars, MaxNestLen), t \in NestTails}

Init ==
  /\ sql \in Sources
  /\ dialect \in Dialects
  /\ i = 0
  /\ tokens = <<>>
  /\ pc = "scan"
  /\ stmts = <<>>

\* the loop body ran branch b: append its token, move i, go on or break
Scan(b, r) ==
  /\ pc = "scan"
  /\ i < Len(sql)
  /\ BranchAt(sql, dialect, i) = b
  /\ tokens' = Append(tokens, r.tok)
  /\ i' = r.i
  /\ pc' = IF r.brk THEN "tokenized" ELSE "scan"
  /\ UNCHANGED <<sql, dialect, stmts>>

Whitespace == Scan("WHITESPACE", WhitespaceStep(sql, i))

CommentLine == Scan("COMMENT_LINE", CommentLineStep(sql, i))

CommentBlock == Scan("COMMENT_BLOCK", CommentBlockStep(sql, i))

StringDollar == Scan("STRING_DOLLAR", StringDollarStep(sql, i))

IdentQuoted == Scan("IDENT_QUOTED", IdentQuotedStep(sql, i))

StringSingle == Scan("STRING_SINGLE", StringSingleStep(sql, i))

QQuote == Scan("QQUOTE", QQuoteStep(sql, i))

Number == Scan("NUMBER", NumberStep(sql, i))

Ident == Scan("IDENT", IdentStep(sql, i))

OpMulti == Scan("OP_MULTI", OpMultiStep(sql, i))

Semicolon == Scan("SEMICOLON", SemicolonStep(sql, i))

Comma == Scan("COMMA", CommaStep(sql, i))

Op == Scan("OP", OpStep(sql, i))

Char == Scan("CHAR", CharStep(sql, i))

\* the loop condition i < n fails: return tokens
Return ==
  /\ pc = "scan"
  /\ i >= Len(sql)
  /\ pc' = "tokenized"
  /\ UNCHANGED <<sql, dialect, i, tokens, stmts>>

\* split_statements(sql, dialect) on the same source
Split ==
  /\ pc = "tokenized"
  /\ stmts' = SplitStatements(sql, dialect)
  /\ pc' = "done"
  /\ UNCHANGED <<sql, dialect, i, tokens>>

Next ==
  \/ Whitespace
  \/ CommentLine
  \/ CommentBlock
  \/ StringDollar
  \/ IdentQuoted
  \/ StringSingle
  \/ QQuote
  \/ Number
  \/ Ident
  \/ OpMulti
  \/ Semicolon
  \/ Comma
  \/ Op
  \/ Char
  \/ Return
  \/ Split

Spec == Init /\ [][Next]_vars

\* the tokens the state machine collected are those tokenize_sql returns
TokensAreTokenizeSql ==
  pc # "scan" => tokens = TokenizeSql(sql, dialect)

(***************************************************************************)
(* Vocabulary of the properties.                                           *)
(***************************************************************************)
UnterminatedKinds ==
  {"STRING_DOLLAR_UNTERMINATED", "IDENT_QUOTED_UNTERMINATED",
   "STRING_SINGLE_UNTERMINATED", "QQUOTE_UNTERMINATED"}

DollarKinds == {"STRING_DOLLAR", "STRING_DOLLAR_UNTERMINATED"}

TokenIndexes == 1..Len(tokens)

RECURSIVE ConcatValues(_)
\* the token values, concatenated in order
ConcatValues(toks) ==
  IF toks = <<>> THEN <<>> ELSE Head(toks).value \o ConcatValues(Tail(toks))

\* the character c occurs in the text v
Contains(v, c) == \E p \in 1..Len(v) : v[p] = c

Max(S) == CHOOSE x \in S : \A y \in S : y <= x

Min(S) == CHOOSE x \in S : \A y \in S : x <= y

IsSemicolonToken(t) == t.type = "SEMICOLON"

IsTerminatedSpan(x) == x.terminated

\* the SEMICOLON tokens of the token list, in order
SemicolonTokens == SelectSeq(tokens, IsSemicolonToken)

\* the spans of stmts with terminated = true, in order
TerminatedSpans == SelectSeq(stmts, IsTerminatedSpan)

\* the offsets at which a token starts or ends
TokenBoundaries == {0} \cup {tokens[k].end : k \in TokenIndexes}

(***************************************************************************)
(* C1.  Partition invariant: the tokens tokenize_sql returns partition     *)
(* [0, len(source)): the first starts at 0 and the last ends at            *)
(* len(source) when the source is non-empty, adjacent tokens meet, every   *)
(* token is non-empty and holds source[start:end], and the values          *)
(* concatenated in order are the source.                                   *)
(***************************************************************************)
C1_Partition ==
  pc # "scan" =>
    /\ (tokens = <<>>) <=> (sql = <<>>)
    /\ tokens # <<>> =>
         tokens[1].start = 0 /\ tokens[Len(tokens)].end = Len(sql)
    /\ \A k \in 1..(Len(tokens) - 1) : tokens[k].end = tokens[k + 1].start
    /\ \A k \in TokenIndexes :
         /\ 0 <= tokens[k].start
         /\ tokens[k].start < tokens[k].end
         /\ tokens[k].end <= Len(sql)
         /\ tokens[k].value = Slice(sql, tokens[k].start, tokens[k].end)
    /\ ConcatValues(tokens) = sql

\* a finished scan of three or more tokens, one of them longer than a character
C1_Witness ==
  /\ pc = "tokenized"
  /\ Len(tokens) >= 3
  /\ \E k \in TokenIndexes : tokens[k].end - tokens[k].start >= 2

(***************************************************************************)
(* C2.  tokenize_sql terminates and never fails: every iteration of the    *)
(* outer loop, the Q-quote break included, appends one token and moves     *)
(* the position forward by at least one character without passing          *)
(* len(source); so there are at most len(source) iterations, and as long   *)
(* as the scan has not returned its next step exists.                      *)
(***************************************************************************)
C2_Bounded ==
  /\ 0 <= i /\ i <= Len(sql)
  /\ Len(tokens) <= Len(sql)
  /\ pc = "scan" => ENABLED Next

C2_Advances ==
  pc = "scan" /\ i < Len(sql) =>
    /\ i' > i
    /\ i' <= Len(sql)
    /\ Len(tokens') = Len(tokens) + 1
    /\ pc' = "tokenized" => i' = Len(sql)

C2_Terminates == [](C2_Bounded) /\ [][C2_Advances]_vars

\* the scan left its loop by the break of the Q-quote branch, after other tokens
C2_Witness ==
  /\ pc = "tokenized"
  /\ Len(tokens) >= 2
  /\ tokens[Len(tokens)].type = "QQUOTE_UNTERMINATED"
  /\ i = Len(sql)

(***************************************************************************)
(* C3.  A semicolon inside a string, quoted identifier, Q-quoted or        *)
(* dollar-quoted string or comment is never a split point: the terminated  *)
(* spans of split_statements are, one to one and in order, the SEMICOLON   *)
(* tokens; each ends at the end of its SEMICOLON token and starts at 0 or  *)
(* at the end of the span before, and no span starts or ends inside a      *)
(* token.                                                                  *)
(***************************************************************************)
C3_SplitAtSemicolonTokens ==
  pc = "done" =>
    /\ Len(TerminatedSpans) = Len(SemicolonTokens)
    /\ \A k \in 1..Len(TerminatedSpans) :
         /\ TerminatedSpans[k].end = SemicolonTokens[k].end
         /\ TerminatedSpans[k].start =
              IF k = 1 THEN 0 ELSE TerminatedSpans[k - 1].end
         /\ TerminatedSpans[k].text =
              Slice(sql, TerminatedSpans[k].start, TerminatedSpans[k].end)
    /\ \A k \in 1..Len(stmts) :
         stmts[k].start \in TokenBoundaries /\ stmts[k].end \in TokenBoundaries

\* one terminated span, the only span, over a source with a semicolon inside
\* a token that is no SEMICOLON
C3_Witness ==
  /\ pc = "done"
  /\ Len(stmts) = 1
  /\ stmts[1].terminated
  /\ \E k \in TokenIndexes :
       tokens[k].type # "SEMICOLON" /\ Contains(tokens[k].value, ";")

(***************************************************************************)
(* C4.  Unterminated quote detection: a single-quoted string or a          *)
(* double-quoted identifier whose closing quote was not found before the   *)
(* end of the source has the unterminated kind and covers the rest of the  *)
(* source; the terminated kind is given only when the closing quote was    *)
(* found.                                                                  *)
(***************************************************************************)
C4_UnterminatedQuoteKind ==
  pc # "scan" =>
    \A k \in TokenIndexes :
      LET t == tokens[k]
      IN /\ t.type \in {"STRING_SINGLE", "STRING_SINGLE_UNTERMINATED"} =>
              IF StringSingleScan(sql, t.start + 1).closed
              THEN t.type = "STRING_SINGLE"
              ELSE t.type = "STRING_SINGLE_UNTERMINATED" /\ t.end = Len(sql)
         /\ t.type \in {"IDENT_QUOTED", "IDENT_QUOTED_UNTERMINATED"} =>
              IF IdentQuotedScan(sql, t.start + 1).closed
              THEN t.type = "IDENT_QUOTED"
              ELSE t.type = "IDENT_QUOTED_UNTERMINATED" /\ t.end = Len(sql)

(***************************************************************************)
(* C5.  Unterminated block comment detection: a block comment whose        *)
(* nesting depth has not returned to zero at the end of the source covers  *)
(* the rest of the source and has a kind other than COMMENT_BLOCK, the     *)
(* kind of a block comment whose depth did return to zero.                 *)
(***************************************************************************)
C5_UnterminatedBlockCommentKind ==
  pc # "scan" =>
    \A k \in TokenIndexes :
      LET t == tokens[k]
      IN (/\ t.end - t.start >= 2
          /\ At(sql, t.start) = "/"
          /\ At(sql, t.start + 1) = "*"
          /\ CommentBlockScan(sql, t.start + 2, 1).depth > 0)
         => t.end = Len(sql) /\ t.type # "COMMENT_BLOCK"

(***************************************************************************)
(* C6.  Dollar-quote tag matching: in dialect 'postgres' a token that      *)
(* starts at an opening $tag$ ends right after the first occurrence of     *)
(* the same $tag$ behind the opening one and has kind STRING_DOLLAR; with  *)
(* no such occurrence it has kind STRING_DOLLAR_UNTERMINATED and ends at   *)
(* the end of the source.  Dollar kinds are given to such tokens only, and *)
(* never in dialect 'oracle'.                                              *)
(***************************************************************************)
\* the characters of s in [a, b) are all tag characters
IsTagRun(s, a, b) == \A p \in a..(b - 1) : IsTagChar(At(s, p))

\* the positions where '$' tag '$' starting at p may end (there is at most one)
DollarOpenerEnds(s, p) ==
  {e \in (p + 2)..Len(s) : IsTagRun(s, p + 1, e - 1) /\ At(s, e - 1) = "$"}

\* an opening delimiter '$' tag '$' starts at p
OpensDollar(s, p) == At(s, p) = "$" /\ DollarOpenerEnds(s, p) # {}

\* where the opening delimiter that starts at p ends
DollarOpenerEnd(s, p) == CHOOSE e \in DollarOpenerEnds(s, p) : TRUE

\* the positions behind the opening delimiter at p where it occurs again
DollarClosers(s, p) ==
  LET e == DollarOpenerEnd(s, p)
      w == e - p
  IN {c \in e..(Len(s) - w) : Slice(s, c, c + w) = Slice(s, p, e)}

C6_DollarTagMatching ==
  pc # "scan" =>
    \A k \in TokenIndexes :
      LET t == tokens[k]
      IN /\ t.type \in DollarKinds =>
              dialect = "postgres" /\ OpensDollar(sql, t.start)
         /\ dialect = "postgres" /\ OpensDollar(sql, t.start) =>
              IF DollarClosers(sql, t.start) = {}
              THEN t.type = "STRING_DOLLAR_UNTERMINATED" /\ t.end = Len(sql)
              ELSE /\ t.type = "STRING_DOLLAR"
                   /\ t.end = Min(DollarClosers(sql, t.start))
                                + (DollarOpenerEnd(sql, t.start) - t.start)

\* a STRING_DOLLAR token that holds, behind its opening delimiter, a whole
\* delimiter of another tag, and does not end at it
C6_Witness ==
  /\ pc # "scan"
  /\ dialect = "postgres"
  /\ \E k \in TokenIndexes :
       /\ tokens[k].type = "STRING_DOLLAR"
       /\ \E p \in DollarOpenerEnd(sql, tokens[k].start)..(tokens[k].end - 1) :
            /\ OpensDollar(sql, p)
            /\ DollarOpenerEnd(sql, p) < tokens[k].end
            /\ Slice(sql, p, DollarOpenerEnd(sql, p))
                 # Slice(sql, tokens[k].start,
                         DollarOpenerEnd(sql, tokens[k].start))

(***************************************************************************)
(* C7.  Q-quote delimiter pairing: in dialect 'oracle' a token that starts *)
(* at q' and an opener has kind QQUOTE when the paired closer followed by  *)
(* a quote is found, and kind QQUOTE_UNTERMINATED, covering the rest of    *)
(* the source, when it is not.                                             *)
(***************************************************************************)
C7_QQuotePairing ==
  pc # "scan" =>
    \A k \in TokenIndexes :
      LET t == tokens[k]
      IN (t.type \in {"QQUOTE", "QQUOTE_UNTERMINATED"}
          /\ t.start + 2 < Len(sql)) =>
           LET r == QQuoteScan(sql, t.start + 3, Closer(At(sql, t.start + 2)))
           IN IF r.closed
              THEN t.type = "QQUOTE" /\ t.end = r.i
              ELSE t.type = "QQUOTE_UNTERMINATED" /\ t.end = Len(sql)

(***************************************************************************)
(* C8.  Trailing partial statement: split_statements returns at most one   *)
(* span with terminated = false, and it is the last; it is there exactly   *)
(* when the text behind the last SEMICOLON token (the whole source when    *)
(* there is none) holds a character that is not whitespace, and it then    *)
(* runs from the end of the last terminated span to len(source).  The      *)
(* empty source gives no span.                                             *)
(***************************************************************************)
\* the end of the last SEMICOLON token, 0 when there is none
LastSemicolonEnd ==
  IF SemicolonTokens = <<>> THEN 0
  ELSE Max({SemicolonTokens[k].end : k \in 1..Len(SemicolonTokens)})

\* the text behind the last SEMICOLON token is not purely whitespace
TailHasText ==
  \E p \in LastSemicolonEnd..(Len(sql) - 1) : ~IsSpace(At(sql, p))

C8_TrailingPartial ==
  pc = "done" =>
    /\ \A k \in 1..(Len(stmts) - 1) : stmts[k].terminated
    /\ (stmts # <<>> /\ ~stmts[Len(stmts)].terminated) <=> TailHasText
    /\ TailHasText =>
         /\ stmts[Len(stmts)] =
              [text |-> Slice(sql, LastSemicolonEnd, Len(sql)),
               start |-> LastSemicolonEnd, end |-> Len(sql),
               terminated |-> FALSE]
         /\ Len(stmts) >= 2 => stmts[Len(stmts)].start = stmts[Len(stmts) - 1].end
         /\ Len(stmts) = 1 => stmts[1].start = 0
    /\ sql = <<>> => stmts = <<>>

\* a terminated span followed by the trailing partial one, which starts with
\* whitespace
C8_Witness ==
  /\ pc = "done"
  /\ Len(stmts) = 2
  /\ stmts[1].terminated
  /\ ~stmts[2].terminated
  /\ IsSpace(stmts[2].text[1])

(***************************************************************************)
(* C9.  Nothing to execute.  As stated: a source of whitespace and comment *)
(* tokens only, without a semicolon, gives an empty span sequence.         *)
(***************************************************************************)
BlankKinds == {"WHITESPACE", "COMMENT_LINE", "COMMENT_BLOCK"}

CommentKinds == {"COMMENT_LINE", "COMMENT_BLOCK"}

C9_CommentsOnlyIsEmpty ==
  (pc = "done" /\ \A k \in TokenIndexes : tokens[k].type \in BlankKinds)
    => stmts = <<>>

(***************************************************************************)
(* C9 as amended: a source of WHITESPACE tokens only gives an empty span   *)
(* sequence; a source of whitespace and comment tokens with at least one   *)
(* comment gives exactly one span, not terminated, over the whole source.  *)
(***************************************************************************)
C9_WhitespaceOnlyIsEmpty ==
  (pc = "done" /\ \A k \in TokenIndexes : tokens[k].type \in BlankKinds)
    => IF \E k \in TokenIndexes : tokens[k].type \in CommentKinds
       THEN stmts = <<[text |-> sql, start |-> 0, end |-> Len(sql),
                       terminated |-> FALSE]>>
       ELSE stmts = <<>>

\* a split source that holds whitespace and a comment and nothing else
C9_Witness ==
  /\ pc = "done"
  /\ \A k \in TokenIndexes : tokens[k].type \in BlankKinds
  /\ \E k \in TokenIndexes : tokens[k].type = "WHITESPACE"
  /\ \E k \in TokenIndexes : tokens[k].type \in CommentKinds

(***************************************************************************)
(* C10.  Idempotent re-tokenization: the text of every token of a          *)
(* terminated kind, tokenized alone in the same dialect, gives exactly one *)
(* token, of the same kind, over the whole text.                           *)
(***************************************************************************)
C10_Retokenize ==
  pc # "scan" =>
    \A k \in TokenIndexes :
      tokens[k].type \notin UnterminatedKinds =>
        TokenizeSql(tokens[k].value, dialect) =
          <<[type |-> tokens[k].type, value |-> tokens[k].value,
             start |-> 0, end |-> Len(tokens[k].value)]>>

\* a token of a quoting kind that neither starts nor ends the source
C10_Witness ==
  /\ pc # "scan"
  /\ \E k \in TokenIndexes :
       /\ tokens[k].type \in
            {"IDENT_QUOTED", "STRING_SINGLE", "QQUOTE", "STRING_DOLLAR"}
       /\ tokens[k].start > 0
       /\ tokens[k].end < Len(sql)

(***************************************************************************)
(* C11.  Number literal shape: the text of every NUMBER token is digits    *)
(* with at most one decimal point (at least one digit), optionally         *)
(* followed by an exponent: e or E, an optional sign, one or more digits.  *)
(* An e or E that no digit follows is not part of the token.               *)
(***************************************************************************)
\* digits with at most one decimal point, and at least one digit
IsMantissa(v) ==
  /\ \A p \in 1..Len(v) : IsDigit(v[p]) \/ v[p] = "."
  /\ \E p \in 1..Len(v) : IsDigit(v[p])
  /\ \A p, q \in 1..Len(v) : v[p] = "." /\ v[q] = "." => p = q

\* nothing, or e/E, an optional sign, and one or more digits
IsExponent(v) ==
  \/ v = <<>>
  \/ /\ Len(v) >= 2
     /\ v[1] \in {"e", "E"}
     /\ LET d == IF v[2] \in {"+", "-"} THEN 3 ELSE 2
        IN d <= Len(v) /\ \A p \in d..Len(v) : IsDigit(v[p])

IsNumberShape(v) ==
  \E m \in 1..Len(v) :
    IsMantissa(SubSeq(v, 1, m)) /\ IsExponent(SubSeq(v, m + 1, Len(v)))

C11_NumberShape ==
  pc # "scan" =>
    \A k \in TokenIndexes :
      tokens[k].type = "NUMBER" => IsNumberShape(tokens[k].value)

(***************************************************************************)
(* C12.  Comment nesting: a block comment token that starts at '/*' ends   *)
(* right after the '*/' at which the nesting depth, raised by every inner  *)
(* '/*' and lowered by every '*/', first returns to zero; an inner '*/'    *)
(* does not end it.  A source that is such a comment followed by text with *)
(* one semicolon, its last character, is one statement, terminated.        *)
(***************************************************************************)
RECURSIVE DelimiterEvents(_, _)
\* the comment delimiters of s from position k on, read left to right without
\* overlap: where each starts and whether it opens (+1) or closes (-1)
DelimiterEvents(s, k) ==
  IF k + 1 >= Len(s) THEN <<>>
  ELSE IF At(s, k) = "/" /\ At(s, k + 1) = "*"
       THEN <<[pos |-> k, delta |-> 1]>> \o DelimiterEvents(s, k + 2)
       ELSE IF At(s, k) = "*" /\ At(s, k + 1) = "/"
            THEN <<[pos |-> k, delta |-> -1]>> \o DelimiterEvents(s, k + 2)
            ELSE DelimiterEvents(s, k + 1)

RECURSIVE DepthAfter(_, _)
\* the nesting depth behind the first j delimiters of ev, inside one comment
DepthAfter(ev, j) == IF j = 0 THEN 1 ELSE DepthAfter(ev, j - 1) + ev[j].delta

\* the delimiters of ev at which the depth is zero
ZeroDepthEvents(ev) == {j \in 1..Len(ev) : DepthAfter(ev, j) = 0}

\* a block comment opens at position p of s
OpensBlockComment(s, p) ==
  p + 1 < Len(s) /\ At(s, p) = "/" /\ At(s, p + 1) = "*"

C12_CommentNesting ==
  /\ pc # "scan" =>
       \A k \in TokenIndexes :
         LET t == tokens[k]
             ev == DelimiterEvents(sql, t.start + 2)
         IN (OpensBlockComment(sql, t.start) /\ ZeroDepthEvents(ev) # {}) =>
              /\ t.type = "COMMENT_BLOCK"
              /\ t.end = ev[Min(ZeroDepthEvents(ev))].pos + 2
  /\ (/\ pc = "done"
      /\ Len(tokens) >= 2
      /\ tokens[1].type = "COMMENT_BLOCK"
      /\ ZeroDepthEvents(DelimiterEvents(sql, 2)) # {}
      /\ Len(SemicolonTokens) = 1
      /\ tokens[Len(tokens)].type = "SEMICOLON")
     => stmts = <<[text |-> sql, start |-> 0, end |-> Len(sql),
                   terminated |-> TRUE]>>

\* a comment with a comment nested in it, closed at its second '*/', followed
\* by a semicolon: one statement
C12_Witness ==
  /\ pc = "done"
  /\ Len(tokens) >= 2
  /\ tokens[1].type = "COMMENT_BLOCK"
  /\ LET ev == DelimiterEvents(sql, 2)
     IN /\ ZeroDepthEvents(ev) # {}
        /\ Min(ZeroDepthEvents(ev)) >= 3
        /\ tokens[1].end = ev[Min(ZeroDepthEvents(ev))].pos + 2
  /\ tokens[Len(tokens)].type = "SEMICOLON"
  /\ Len(stmts) = 1
  /\ stmts[1].terminated

(***************************************************************************)
(* C13.  Escape correctness: inside a single-quoted string a doubled ''    *)
(* and inside a double-quoted identifier a doubled "" is content; the      *)
(* token ends right after the first quote that is not the first half of a  *)
(* doubled pair, that is, at the end of the first run of an odd number of  *)
(* quotes behind the opening one.                                          *)
(***************************************************************************)
\* [a, b) is a maximal run of the quote q in s behind position lo
IsQuoteRun(s, lo, a, b, q) ==
  /\ lo <= a /\ a < b /\ b <= Len(s)
  /\ \A p \in a..(b - 1) : At(s, p) = q
  /\ b = Len(s) \/ At(s, b) # q
  /\ a = lo \/ At(s, a - 1) # q

\* where the runs of an odd number of quotes q end in s behind the opening
\* quote at position start
OddQuoteRunEnds(s, start, q) ==
  {b \in (start + 2)..Len(s) :
     \E a \in (start + 1)..(b - 1) :
       IsQuoteRun(s, start + 1, a, b, q) /\ (b - a) % 2 = 1}

\* positions p, p + 1 of the content of token t hold a doubled quote q
HasDoubledQuote(t, q) ==
  \E p \in 2..(Len(t.value) - 2) : t.value[p] = q /\ t.value[p + 1] = q

C13_EscapedQuotes ==
  pc # "scan" =>
    \A k \in TokenIndexes :
      LET t == tokens[k]
      IN /\ (At(sql, t.start) = "'"
             /\ OddQuoteRunEnds(sql, t.start, "'") # {}) =>
              /\ t.type = "STRING_SINGLE"
              /\ t.end = Min(OddQuoteRunEnds(sql, t.start, "'"))
         /\ (At(sql, t.start) = "\""
             /\ OddQuoteRunEnds(sql, t.start, "\"") # {}) =>
              /\ t.type = "IDENT_QUOTED"
              /\ t.end = Min(OddQuoteRunEnds(sql, t.start, "\""))

\* the whole source is one STRING_SINGLE token, closed, with a doubled quote
\* and a letter in its content
C13_Witness ==
  /\ pc # "scan"
  /\ Len(tokens) = 1
  /\ tokens[1].type = "STRING_SINGLE"
  /\ tokens[1].end = Len(sql)
  /\ OddQuoteRunEnds(sql, 0, "'") # {}
  /\ HasDoubledQuote(tokens[1], "'")
  /\ Contains(tokens[1].value, "a")

(***************************************************************************)
(* C14.  Stability under appended input: for a buffer s, an appended text  *)
(* t and one dialect, the terminated spans of split_statements(s) are the  *)
(* first terminated spans of split_statements(s + t), with the same text,  *)
(* start and end.  Checked on every cut of the source into s and t; a line *)
(* the read loop appends to its buffer is one such t.                      *)
(***************************************************************************)
\* the terminated spans of split_statements on the first m characters
TerminatedSpansOfPrefix(m) ==
  SelectSeq(SplitStatements(SubSeq(sql, 1, m), dialect), IsTerminatedSpan)

C14_StableUnderAppend ==
  pc = "done" =>
    \A m \in 0..Len(sql) :
      LET before == TerminatedSpansOfPrefix(m)
      IN /\ Len(before) <= Len(TerminatedSpans)
         /\ \A k \in 1..Len(before) : before[k] = TerminatedSpans[k]

\* the source is a buffer with a terminated statement and an open one, plus a
\* line appended by the read loop that terminates the open one
C14_Witness ==
  /\ pc = "done"
  /\ \E m \in 1..(Len(sql) - 2) :
       LET buf == SubSeq(sql, 1, m)
           was == SplitStatements(buf, dialect)
       IN /\ sql = ReplAppend(buf, SubSeq(sql, m + 2, Len(sql)), TRUE)
          /\ Len(was) >= 2
          /\ ~was[Len(was)].terminated
          /\ Len(TerminatedSpans) > Len(TerminatedSpansOfPrefix(m))
          /\ stmts[Len(stmts)].terminated

====
